---- MODULE Spec2Model ----
(***************************************************************************)
(* Queue ticket issuance and ticket lifecycle of queue-django-api.          *)
(*                                                                          *)
(* Issuance is models.py (Ticket.save, Window.get_next_queue_number) driven *)
(* by views.py generate_ticket.  The staff operations are staff_views.py.   *)
(* Request handlers run concurrently against one store; a handler is a      *)
(* sequence of steps, one step per store access.                            *)
(***************************************************************************)
EXTENDS Integers, Sequences, FiniteSets, TLC

\* ---------------------------------------------------------------- bounds
MaxIssues == 3
MaxOps == 2
MaxDay == 2
NumTickets == 3
MaxBinds == 3

\* ---------------------------------------------------------------- fixture
None == 0

\* request.user of a handler: two staff accounts, one handler each at a time
Procs == {1, 2}

\* a subset of the windows of create_initial_windows
WindowIds == {1, 2, 3, 6}

InitialWindows ==
    [w \in WindowIds |->
        [service_type |-> CASE w = 1 -> "other"
                            [] w = 2 -> "registrar"
                            [] w = 3 -> "registrar"
                            [] OTHER -> "cashier",
         status |-> IF w = 1 THEN "inactive" ELSE "active",
         current_queue_number |-> 0,
         last_queue_reset |-> 1,
         current_staff |-> None]]

\* staff_profile.assigned_service of the two staff accounts
AssignedService(p) == "registrar"

VARIABLES
    clock,      \* timezone.now().date(), a day number
    windows,    \* Window rows
    tickets,    \* Ticket rows, in insertion order; a ticket's id is its index
    locked,     \* row locks of select_for_update: ticket id -> transaction
    pc,         \* position of each handler
    loc,        \* local variables of each handler
    res,        \* the last response of each handler
    nreq,       \* requests started
    aborted     \* issue requests that ended in an IntegrityError

vars == <<clock, windows, tickets, locked, pc, loc, res, nreq, aborted>>

TicketIds == 1..(MaxIssues + NumTickets)

NoTicket ==
    [service |-> "", window |-> None, queue_number |-> 0, ticket_date |-> 0,
     status |-> "", assigned_window |-> None, called_by |-> None, called_at |-> None,
     served_by |-> None, served_at |-> None, notes |-> <<>>]

NoWindow ==
    [service_type |-> "", status |-> "", current_queue_number |-> 0, last_queue_reset |-> 0,
     current_staff |-> None]

Idle ==
    [op |-> "none", t |-> None, w |-> None, cur |-> None, nt |-> None,
     obj |-> NoTicket, win |-> NoWindow, tdate |-> 0, qn |-> 0]

\* a ticket stored without its allocated number
NewTicketUnnumbered(sg, w, qn, d) ==
    [NoTicket EXCEPT !.service = sg, !.window = w, !.ticket_date = d, !.status = "waiting"]

\* Ticket(...) with the field defaults of the model
NewTicket(sg, w, qn, d) ==
    [NoTicket EXCEPT !.service = sg, !.window = w, !.queue_number = qn,
                     !.ticket_date = d, !.status = "waiting"]

Max(S) == CHOOSE x \in S : \A y \in S : y <= x

\* ---------------------------------------------------------------- requests

\* a handler's return
Finish(p, r) ==
    /\ pc' = [pc EXCEPT ![p] = "idle"]
    /\ loc' = [loc EXCEPT ![p] = Idle]
    /\ res' = [res EXCEPT ![p] = r]

\* a return from the first step of a handler
Reject(p, r) ==
    /\ pc' = pc
    /\ loc' = [loc EXCEPT ![p] = Idle]
    /\ res' = [res EXCEPT ![p] = r]

\* a request comes in
Begin(p) ==
    /\ pc[p] = "idle"
    /\ nreq < MaxOps
    /\ nreq' = nreq + 1

\* ---------------------------------------------------------------- issuance

\* Window.save(): the whole row from the in-memory copy; auto_now stamps the day
WindowSave(win, today) == [win EXCEPT !.last_queue_reset = today]

\* generate_ticket, window_id given: load the window, check its type
GenerateTicketWindow(p, w) ==
    /\ pc[p] = "idle"
    /\ nreq < MaxIssues
    /\ nreq' = nreq + 1
    /\ IF windows[w].status # "active"
         THEN Reject(p, "WindowNotFound")
         ELSE IF windows[w].service_type \notin {"registrar", "permit"}
         THEN Reject(p, "BadRequest")
         ELSE /\ pc' = [pc EXCEPT ![p] = "sv_date"]
              /\ loc' = [loc EXCEPT ![p] = [Idle EXCEPT !.op = "issue", !.w = w, !.win = windows[w]]]
              /\ res' = [res EXCEPT ![p] = "pending"]
    /\ UNCHANGED <<clock, windows, tickets, locked, aborted>>

\* generate_ticket, service_group given
GenerateTicketGroup(p, sg) ==
    /\ pc[p] = "idle"
    /\ nreq < MaxIssues
    /\ nreq' = nreq + 1
    /\ IF sg # "cashier"
         THEN Reject(p, "BadRequest")
         ELSE /\ pc' = [pc EXCEPT ![p] = "sv_date"]
              /\ loc' = [loc EXCEPT ![p] = [Idle EXCEPT !.op = "issue"]]
              /\ res' = [res EXCEPT ![p] = "pending"]
    /\ UNCHANGED <<clock, windows, tickets, locked, aborted>>

\* Ticket.save: self.ticket_date = timezone.now().date()
SaveDate(p) ==
    /\ pc[p] = "sv_date"
    /\ loc' = [loc EXCEPT ![p].tdate = clock]
    /\ pc' = [pc EXCEPT ![p] = IF loc[p].w # None THEN "gn_reset" ELSE "sv_last"]
    /\ UNCHANGED <<clock, windows, tickets, locked, res, nreq, aborted>>

\* Window.get_next_queue_number: today, and the reset of a new day
GetNextReset(p) ==
    /\ pc[p] = "gn_reset"
    /\ IF loc[p].win.last_queue_reset # clock
         THEN LET win == WindowSave([loc[p].win EXCEPT !.current_queue_number = 0], clock)
              IN /\ loc' = [loc EXCEPT ![p].win = win]
                 /\ windows' = [windows EXCEPT ![loc[p].w] = win]
         ELSE UNCHANGED <<loc, windows>>
    /\ pc' = [pc EXCEPT ![p] = "gn_incr"]
    /\ UNCHANGED <<clock, tickets, locked, res, nreq, aborted>>

\* Window.get_next_queue_number: increment, save, return
GetNextIncr(p) ==
    /\ pc[p] = "gn_incr"
    /\ LET win == WindowSave([loc[p].win EXCEPT
                                 !.current_queue_number = loc[p].win.current_queue_number + 1], clock)
       IN /\ loc' = [loc EXCEPT ![p].win = win, ![p].qn = win.current_queue_number]
          /\ windows' = [windows EXCEPT ![loc[p].w] = win]
    /\ pc' = [pc EXCEPT ![p] = "sv_insert"]
    /\ UNCHANGED <<clock, tickets, locked, res, nreq, aborted>>

\* Ticket.save, shared queue: the last cashier ticket of the day, plus one
LastNumber(tks, sg, d) ==
    LET S == {tks[i].queue_number : i \in {j \in DOMAIN tks :
                  tks[j].service = sg /\ tks[j].ticket_date = d}}
    IN IF S = {} THEN 0 ELSE Max(S)

SaveLast(p) ==
    /\ pc[p] = "sv_last"
    /\ loc' = [loc EXCEPT ![p].qn = LastNumber(tickets, "cashier", loc[p].tdate) + 1]
    /\ pc' = [pc EXCEPT ![p] = "sv_insert"]
    /\ UNCHANGED <<clock, windows, tickets, locked, res, nreq, aborted>>

\* Ticket.Meta.unique_together: would the row break a constraint
UniqueConflict(tks, row) ==
    \E i \in DOMAIN tks :
        /\ tks[i].queue_number = row.queue_number
        /\ tks[i].ticket_date = row.ticket_date
        /\ \/ (row.window # None /\ tks[i].window = row.window)
           \/ (row.service # "" /\ tks[i].service = row.service)

\* the service_group of the ticket a handler is about to store
IssueGroup(p) == IF loc[p].w # None THEN loc[p].win.service_type ELSE "cashier"

\* Ticket.save: super().save(), the INSERT
SaveInsert(p) ==
    /\ pc[p] = "sv_insert"
    /\ LET row == NewTicket(IssueGroup(p), loc[p].w, loc[p].qn, loc[p].tdate)
       IN IF UniqueConflict(tickets, row)
            THEN /\ res' = [res EXCEPT ![p] = "IntegrityError"]
                 /\ aborted' = aborted + 1
                 /\ pc' = [pc EXCEPT ![p] = "idle"]
                 /\ loc' = [loc EXCEPT ![p] = [Idle EXCEPT !.op = "issue", !.qn = loc[p].qn,
                                                           !.tdate = loc[p].tdate]]
                 /\ UNCHANGED tickets
            ELSE /\ tickets' = Append(tickets, row)
                 /\ pc' = [pc EXCEPT ![p] = "pr_print"]
                 /\ loc' = [loc EXCEPT ![p].t = Len(tickets) + 1]
                 /\ UNCHANGED <<res, aborted>>
    /\ UNCHANGED <<clock, windows, locked, nreq>>

\* a print_ticket that lets the printer's exception out, and the 500 that follows
PrintTicketRaising(p) ==
    /\ pc[p] = "pr_print"
    /\ \E printed \in BOOLEAN :
          res' = [res EXCEPT ![p] = IF printed THEN "Created" ELSE "ServerError"]
    /\ pc' = [pc EXCEPT ![p] = "idle"]
    /\ loc' = [loc EXCEPT ![p] = [Idle EXCEPT !.op = "issue", !.qn = loc[p].qn,
                                              !.tdate = loc[p].tdate]]
    /\ UNCHANGED <<clock, windows, tickets, locked, nreq, aborted>>

\* generate_ticket after the create: MockPrinter.print_ticket returns its result, with
\* success False when the printing raised, and the 201 carries it as printer_data
PrintTicket(p) ==
    /\ pc[p] = "pr_print"
    /\ \E printed \in BOOLEAN :
          res' = [res EXCEPT ![p] = IF printed THEN "Created" ELSE "CreatedUnprinted"]
    /\ pc' = [pc EXCEPT ![p] = "idle"]
    /\ loc' = [loc EXCEPT ![p] = [Idle EXCEPT !.op = "issue", !.qn = loc[p].qn,
                                              !.tdate = loc[p].tdate]]
    /\ UNCHANGED <<clock, windows, tickets, locked, nreq, aborted>>

\* midnight
Tick ==
    /\ clock < MaxDay
    /\ clock' = clock + 1
    /\ UNCHANGED <<windows, tickets, locked, pc, loc, res, nreq, aborted>>

InitIssue ==
    /\ clock = 1
    /\ windows = InitialWindows
    /\ tickets = <<>>
    /\ locked = [t \in TicketIds |-> None]
    /\ pc = [p \in Procs |-> "idle"]
    /\ loc = [p \in Procs |-> Idle]
    /\ res = [p \in Procs |-> "none"]
    /\ nreq = 0
    /\ aborted = 0

NextIssue ==
    \/ \E p \in Procs, w \in WindowIds : GenerateTicketWindow(p, w)
    \/ \E p \in Procs, sg \in {"cashier", "permit"} : GenerateTicketGroup(p, sg)
    \/ \E p \in Procs : SaveDate(p)
    \/ \E p \in Procs : GetNextReset(p)
    \/ \E p \in Procs : GetNextIncr(p)
    \/ \E p \in Procs : SaveLast(p)
    \/ \E p \in Procs : SaveInsert(p)
    \/ \E p \in Procs : PrintTicket(p)
    \/ Tick

SpecIssue == InitIssue /\ [][NextIssue]_vars

\* ---------------------------------------------------------------- store access of the staff operations

\* a window lookup that takes a window of the service whatever its status
WindowFoundAnyStatus(w, svc) ==
    /\ w \in WindowIds
    /\ windows[w].service_type = svc

\* ServiceWindow.objects.get(id=window_id, service=service, status='active')
WindowFound(w, svc) ==
    /\ w \in WindowIds
    /\ windows[w].service_type = svc
    /\ windows[w].status = "active"

\* Ticket.objects.filter(service, assigned_window, ticket_date, status='serving')
ServingAt(tks, svc, w, today) ==
    {i \in DOMAIN tks : /\ tks[i].service = svc
                        /\ tks[i].assigned_window = w
                        /\ tks[i].ticket_date = today
                        /\ tks[i].status = "serving"}

\* the queue with the notified tickets in it
WaitingOrNotifiedOf(tks, svc, today) ==
    {i \in DOMAIN tks : /\ tks[i].service = svc
                        /\ tks[i].ticket_date = today
                        /\ tks[i].status \in {"waiting", "notified"}}

\* the queue with the tickets of every day in it
WaitingOfAnyDay(tks, svc, today) ==
    {i \in DOMAIN tks : tks[i].service = svc /\ tks[i].status = "waiting"}

\* Ticket.objects.filter(service, ticket_date, status='waiting')
WaitingOf(tks, svc, today) ==
    {i \in DOMAIN tks : /\ tks[i].service = svc
                        /\ tks[i].ticket_date = today
                        /\ tks[i].status = "waiting"}

\* .order_by('queue_number').first(), None for an empty queryset
First(tks, S) ==
    IF S = {} THEN None
    ELSE CHOOSE i \in S : \A j \in S : tks[i].queue_number <= tks[j].queue_number

\* a plain select in place of select_for_update
LockableUnlocked(p, t) == TRUE

\* select_for_update: the row is returned once no other transaction holds it
Lockable(p, t) == IF t = None THEN TRUE ELSE locked[t] \in {None, p}

Lock(lk, p, t) == IF t = None THEN lk ELSE [lk EXCEPT ![t] = p]

\* the end of the atomic block: every row lock of the transaction is released
Release(lk, p) == [t \in DOMAIN lk |-> IF lk[t] = p THEN None ELSE lk[t]]

\* UPDATE of a row by a handler outside a transaction waits for the row lock
Writable(p, t) == locked[t] \in {None, p}

\* the completion without the staff stamp
MarkServedUnstamped(tks, t, user, now) ==
    IF t = None THEN tks
    ELSE [tks EXCEPT ![t] = [@ EXCEPT !.status = "served", !.served_at = now]]

\* current_serving.status = 'served'; served_by; served_at; save()
MarkServed(tks, t, user, now) ==
    IF t = None THEN tks
    ELSE [tks EXCEPT ![t] = [@ EXCEPT !.status = "served", !.served_by = user, !.served_at = now]]

\* a save that allocates a number again, as Ticket.save would without its pk test
MarkServingRenumbered(tks, t, w, user, now) ==
    [tks EXCEPT ![t] = [@ EXCEPT !.status = "serving", !.called_by = user,
                                 !.called_at = now, !.assigned_window = w,
                                 !.queue_number = Len(tks) + 1]]

\* a call that stamps the ticket and leaves its status as it was
MarkServingStatusKept(tks, t, w, user, now) ==
    [tks EXCEPT ![t] = [@ EXCEPT !.called_by = user, !.called_at = now, !.assigned_window = w]]

\* a call that leaves the window of the ticket as it was
MarkServingUnassigned(tks, t, w, user, now) ==
    [tks EXCEPT ![t] = [@ EXCEPT !.status = "serving", !.called_by = user, !.called_at = now]]

\* next_ticket.status = 'serving'; called_by; called_at; assigned_window; save()
MarkServing(tks, t, w, user, now) ==
    [tks EXCEPT ![t] = [@ EXCEPT !.status = "serving", !.called_by = user,
                                 !.called_at = now, !.assigned_window = w]]

\* ---------------------------------------------------------------- call_next_ticket

\* the window lookup, and today
CallNextStart(p, w) ==
    /\ Begin(p)
    /\ IF WindowFound(w, AssignedService(p))
         THEN /\ pc' = [pc EXCEPT ![p] = "cn_cur"]
              /\ loc' = [loc EXCEPT ![p] = [Idle EXCEPT !.op = "call_next", !.w = w, !.tdate = clock]]
              /\ res' = [res EXCEPT ![p] = "pending"]
         ELSE Reject(p, "WindowNotFound")
    /\ UNCHANGED <<clock, windows, tickets, locked, aborted>>

\* STEP 1: the ticket this window is serving, locked
CallNextCurrent(p) ==
    /\ pc[p] = "cn_cur"
    /\ LET c == First(tickets, ServingAt(tickets, AssignedService(p), loc[p].w, loc[p].tdate))
       IN /\ Lockable(p, c)
          /\ locked' = Lock(locked, p, c)
          /\ loc' = [loc EXCEPT ![p].cur = c]
    /\ pc' = [pc EXCEPT ![p] = "cn_next"]
    /\ UNCHANGED <<clock, windows, tickets, res, nreq, aborted>>

\* STEP 2: the next waiting ticket, locked; none: the response inside the atomic
\* block, which commits what STEP 1 saved
CallNextSelect(p) ==
    /\ pc[p] = "cn_next"
    /\ LET n == First(tickets, WaitingOf(tickets, AssignedService(p), loc[p].tdate))
       IN /\ Lockable(p, n)
          /\ IF n = None
               THEN /\ tickets' = MarkServed(tickets, loc[p].cur, p, clock)
                    /\ locked' = Release(locked, p)
                    /\ Finish(p, "QueueEmpty")
               ELSE /\ locked' = Lock(locked, p, n)
                    /\ loc' = [loc EXCEPT ![p].nt = n]
                    /\ pc' = [pc EXCEPT ![p] = "cn_assign"]
                    /\ UNCHANGED <<tickets, res>>
    /\ UNCHANGED <<clock, windows, nreq, aborted>>

\* STEP 3 and the commit: the served ticket and the called ticket become visible together
CallNextAssign(p) ==
    /\ pc[p] = "cn_assign"
    /\ tickets' = MarkServing(MarkServed(tickets, loc[p].cur, p, clock),
                              loc[p].nt, loc[p].w, p, clock)
    /\ locked' = Release(locked, p)
    /\ Finish(p, "ok")
    /\ UNCHANGED <<clock, windows, nreq, aborted>>

\* ---------------------------------------------------------------- call_specific_ticket

CallSpecificStart(p, t, w) ==
    /\ Begin(p)
    /\ IF WindowFound(w, AssignedService(p))
         THEN /\ pc' = [pc EXCEPT ![p] = "cs_get"]
              /\ loc' = [loc EXCEPT ![p] = [Idle EXCEPT !.op = "call_specific", !.t = t,
                                                        !.w = w, !.tdate = clock]]
              /\ res' = [res EXCEPT ![p] = "pending"]
         ELSE Reject(p, "WindowNotFound")
    /\ UNCHANGED <<clock, windows, tickets, locked, aborted>>

\* select_for_update().get(service, ticket_date, display_number), and the status check
CallSpecificGet(p) ==
    /\ pc[p] = "cs_get"
    /\ LET t == loc[p].t
       IN IF ~(/\ t \in DOMAIN tickets
               /\ tickets[t].service = AssignedService(p)
               /\ tickets[t].ticket_date = loc[p].tdate)
            THEN /\ Finish(p, "NotFound")
                 /\ UNCHANGED locked
            ELSE /\ Lockable(p, t)
                 /\ IF tickets[t].status \notin {"waiting", "notified"}
                      THEN /\ Finish(p, "InvalidState")
                           /\ locked' = Release(locked, p)
                      ELSE /\ locked' = Lock(locked, p, t)
                           /\ pc' = [pc EXCEPT ![p] = "cs_cur"]
                           /\ UNCHANGED <<loc, res>>
    /\ UNCHANGED <<clock, windows, tickets, nreq, aborted>>

\* the ticket this window is serving, locked
CallSpecificCurrent(p) ==
    /\ pc[p] = "cs_cur"
    /\ LET c == First(tickets, ServingAt(tickets, AssignedService(p), loc[p].w, loc[p].tdate))
       IN /\ Lockable(p, c)
          /\ locked' = Lock(locked, p, c)
          /\ loc' = [loc EXCEPT ![p].cur = c]
    /\ pc' = [pc EXCEPT ![p] = "cs_assign"]
    /\ UNCHANGED <<clock, windows, tickets, res, nreq, aborted>>

\* both saves and the commit
CallSpecificAssign(p) ==
    /\ pc[p] = "cs_assign"
    /\ tickets' = MarkServing(MarkServed(tickets, loc[p].cur, p, clock),
                              loc[p].t, loc[p].w, p, clock)
    /\ locked' = Release(locked, p)
    /\ Finish(p, "ok")
    /\ UNCHANGED <<clock, windows, nreq, aborted>>


\* ---------------------------------------------------------------- lock waits

\* the row a call is about to lock with select_for_update, None when there is none
WaitsFor(p) ==
    CASE pc[p] \in {"cn_cur", "cs_cur"} ->
             First(tickets, ServingAt(tickets, AssignedService(p), loc[p].w, loc[p].tdate))
      [] pc[p] = "cn_next" -> First(tickets, WaitingOf(tickets, AssignedService(p), loc[p].tdate))
      [] pc[p] = "cs_get" ->
             IF /\ loc[p].t \in DOMAIN tickets
                /\ tickets[loc[p].t].service = AssignedService(p)
                /\ tickets[loc[p].t].ticket_date = loc[p].tdate
               THEN loc[p].t ELSE None
      [] OTHER -> None

\* p waits for a row that q has locked
BlockedBy(p, q) == WaitsFor(p) # None /\ locked[WaitsFor(p)] = q

\* the database ends a lock cycle: it aborts one of the two transactions, whose locks
\* go and whose handler ends with the unhandled database error
DeadlockAbort(p) ==
    /\ \E q \in Procs \ {p} : BlockedBy(p, q) /\ BlockedBy(q, p)
    /\ locked' = Release(locked, p)
    /\ Finish(p, "ServerError")
    /\ UNCHANGED <<clock, windows, tickets, nreq, aborted>>

\* ---------------------------------------------------------------- start_serving, complete_serving, remove_ticket, recall_ticket
\* These four read the ticket, check it and save it, outside any transaction: save()
\* writes every field of the in-memory copy over the row.

\* a lookup without the permission check
LookupAnyService(p, t) == IF t \notin DOMAIN tickets THEN "NotFound" ELSE "ok"

\* Ticket.objects.get(ticket_id=ticket_id) and the permission check
Lookup(p, t) ==
    IF t \notin DOMAIN tickets THEN "NotFound"
    ELSE IF tickets[t].service # AssignedService(p) THEN "Forbidden"
    ELSE "ok"

\* the guard of each operation on the status it read
StartGuard(st) == st \in {"waiting", "notified"}

CompleteGuard(st) == st = "serving"

RemoveGuard(st) == st # "served"

RecallGuard(st) == st \in {"notified", "skipped", "cancelled"}

\* a save that is followed by an error response
SaveTicketRefused(p, row) ==
    /\ Writable(p, loc[p].t)
    /\ tickets' = [tickets EXCEPT ![loc[p].t] = row]
    /\ Finish(p, "InvalidState")
    /\ UNCHANGED <<clock, windows, locked, nreq, aborted>>

\* ticket.save()
SaveTicket(p, row) ==
    /\ Writable(p, loc[p].t)
    /\ tickets' = [tickets EXCEPT ![loc[p].t] = row]
    /\ Finish(p, "ok")
    /\ UNCHANGED <<clock, windows, locked, nreq, aborted>>

\* a read that ends the request, or one that goes on to the save
ReadTicket(p, t, w, op, guard, next) ==
    /\ Begin(p)
    /\ LET found == Lookup(p, t)
       IN IF found # "ok"
            THEN Reject(p, found)
            ELSE IF ~guard
            THEN Reject(p, "InvalidState")
            ELSE IF w # None /\ ~WindowFound(w, tickets[t].service)
            THEN Reject(p, "WindowNotFound")
            ELSE /\ pc' = [pc EXCEPT ![p] = next]
                 /\ loc' = [loc EXCEPT ![p] = [Idle EXCEPT !.op = op, !.t = t, !.w = w,
                                                           !.obj = tickets[t]]]
                 /\ res' = [res EXCEPT ![p] = "pending"]
    /\ UNCHANGED <<clock, windows, tickets, locked, aborted>>

StartServingRead(p, t, w) ==
    ReadTicket(p, t, w, "start_serving",
               t \in DOMAIN tickets /\ StartGuard(tickets[t].status), "ss_save")

StartServingSave(p) ==
    /\ pc[p] = "ss_save"
    /\ SaveTicket(p, [loc[p].obj EXCEPT !.status = "serving", !.assigned_window = loc[p].w])

CompleteRead(p, t) ==
    ReadTicket(p, t, None, "complete_serving",
               t \in DOMAIN tickets /\ CompleteGuard(tickets[t].status), "co_save")

CompleteSave(p) ==
    /\ pc[p] = "co_save"
    /\ SaveTicket(p, [loc[p].obj EXCEPT !.status = "served", !.served_by = p, !.served_at = clock])

RemoveRead(p, t) ==
    ReadTicket(p, t, None, "remove_ticket",
               t \in DOMAIN tickets /\ RemoveGuard(tickets[t].status), "rm_save")

RemoveSave(p) ==
    /\ pc[p] = "rm_save"
    /\ SaveTicket(p, [loc[p].obj EXCEPT !.status = "cancelled", !.notes = <<"Removed from queue">>])

RecallRead(p, t) ==
    ReadTicket(p, t, None, "recall_ticket",
               t \in DOMAIN tickets /\ RecallGuard(tickets[t].status), "rc_save")

RecallSave(p) ==
    /\ pc[p] = "rc_save"
    /\ SaveTicket(p, [loc[p].obj EXCEPT !.status = "waiting",
                                        !.notes = <<"Recalled from " \o loc[p].obj.status>> \o loc[p].obj.notes,
                                        !.called_by = None, !.called_at = None])

\* ---------------------------------------------------------------- the staff specification

\* the windows when the requests come in: window 2 has issued the tickets of the day,
\* the closed window 1 has been made a registrar window, under maintenance
StaffWindows ==
    [InitialWindows EXCEPT ![2].current_queue_number = NumTickets,
                           ![2].last_queue_reset = MaxDay,
                           ![1].service_type = "registrar",
                           ![1].status = "maintenance"]

\* how many of the first tickets have been marked notified: none, one or all
InitNotified == {0, 1, NumTickets}

\* what the tickets of the day are when the requests come in: issued in queue order at
\* window 2, the first `notified` of them marked notified since (only the admin form
\* edits a status to notified), the first possibly called to window 2 by staff 1
InitStore(notified, called) ==
    [i \in 1..NumTickets |->
        IF i = 1 /\ called
          THEN [NewTicket("registrar", 2, i, MaxDay) EXCEPT
                   !.status = "serving", !.assigned_window = 2, !.called_by = 1, !.called_at = MaxDay]
          ELSE [NewTicket("registrar", 2, i, MaxDay) EXCEPT
                   !.status = IF i <= notified THEN "notified" ELSE "waiting"]]

\* the window ids a request can name: the stored ones and an unknown one
RequestWindows == WindowIds \cup {11}

\* the ticket ids and ticket numbers a request can name: the stored ones and an unknown one
RequestIds == 1..(Len(tickets) + 1)

Init ==
    /\ clock = MaxDay
    /\ windows = StaffWindows
    /\ \E notified \in InitNotified, called \in BOOLEAN :
          tickets = InitStore(notified, called)
    /\ locked = [t \in TicketIds |-> None]
    /\ pc = [p \in Procs |-> "idle"]
    /\ loc = [p \in Procs |-> Idle]
    /\ res = [p \in Procs |-> "none"]
    /\ nreq = 0
    /\ aborted = 0

Next ==
    \/ \E p \in Procs, w \in RequestWindows : CallNextStart(p, w)
    \/ \E p \in Procs : CallNextCurrent(p)
    \/ \E p \in Procs : CallNextSelect(p)
    \/ \E p \in Procs : CallNextAssign(p)
    \/ \E p \in Procs, t \in RequestIds, w \in RequestWindows : CallSpecificStart(p, t, w)
    \/ \E p \in Procs : CallSpecificGet(p)
    \/ \E p \in Procs : CallSpecificCurrent(p)
    \/ \E p \in Procs : CallSpecificAssign(p)
    \/ \E p \in Procs : DeadlockAbort(p)
    \/ \E p \in Procs, t \in RequestIds, w \in RequestWindows : StartServingRead(p, t, w)
    \/ \E p \in Procs : StartServingSave(p)
    \/ \E p \in Procs, t \in RequestIds : CompleteRead(p, t)
    \/ \E p \in Procs : CompleteSave(p)
    \/ \E p \in Procs, t \in RequestIds : RemoveRead(p, t)
    \/ \E p \in Procs : RemoveSave(p)
    \/ \E p \in Procs, t \in RequestIds : RecallRead(p, t)
    \/ \E p \in Procs : RecallSave(p)

Spec == Init /\ [][Next]_vars

\* the store with a ticket of another service in it: the last ticket of the day is a
\* cashier ticket, the others are registrar tickets of window 2
MixedStore(called) ==
    [i \in 1..NumTickets |->
        IF i = NumTickets THEN NewTicket("cashier", None, 1, MaxDay)
        ELSE InitStore(0, called)[i]]

InitMixed ==
    /\ clock = MaxDay
    /\ windows = StaffWindows
    /\ \E called \in BOOLEAN : tickets = MixedStore(called)
    /\ locked = [t \in TicketIds |-> None]
    /\ pc = [p \in Procs |-> "idle"]
    /\ loc = [p \in Procs |-> Idle]
    /\ res = [p \in Procs |-> "none"]
    /\ nreq = 0
    /\ aborted = 0

SpecMixed == InitMixed /\ [][Next]_vars

\* the store on the day before the last: the tickets were issued on that day
DayStore(called) ==
    [i \in 1..NumTickets |->
        [InitStore(0, called)[i] EXCEPT
            !.ticket_date = MaxDay - 1,
            !.called_at = IF @ = None THEN None ELSE MaxDay - 1]]

InitDays ==
    /\ clock = MaxDay - 1
    /\ windows = StaffWindows
    /\ \E called \in BOOLEAN : tickets = DayStore(called)
    /\ locked = [t \in TicketIds |-> None]
    /\ pc = [p \in Procs |-> "idle"]
    /\ loc = [p \in Procs |-> Idle]
    /\ res = [p \in Procs |-> "none"]
    /\ nreq = 0
    /\ aborted = 0

\* the staff requests, and midnight
NextDays ==
    \/ Next
    \/ Tick

SpecDays == InitDays /\ [][NextDays]_vars

\* service.windows.filter(status='active')
ActiveWindowsOf(svc) ==
    {w \in WindowIds : windows[w].service_type = svc /\ windows[w].status = "active"}

\* call_next_ticket coming in again and again: the requests of the staff at the
\* windows are not counted
CallNextRepeat(p, w) ==
    /\ pc[p] = "idle"
    /\ IF WindowFound(w, AssignedService(p))
         THEN /\ pc' = [pc EXCEPT ![p] = "cn_cur"]
              /\ loc' = [loc EXCEPT ![p] = [Idle EXCEPT !.op = "call_next", !.w = w, !.tdate = clock]]
              /\ res' = [res EXCEPT ![p] = "pending"]
         ELSE Reject(p, "WindowNotFound")
    /\ UNCHANGED <<clock, windows, tickets, locked, nreq, aborted>>

\* call_next_ticket repeated by the staff at the active windows of their service
NextLive ==
    \/ \E p \in Procs : \E w \in ActiveWindowsOf(AssignedService(p)) : CallNextRepeat(p, w)
    \/ \E p \in Procs : CallNextCurrent(p)
    \/ \E p \in Procs : CallNextSelect(p)
    \/ \E p \in Procs : CallNextAssign(p)

\* the store of the day when the repeated calls begin: nothing notified
InitLive ==
    /\ clock = MaxDay
    /\ windows = StaffWindows
    /\ \E called \in BOOLEAN : tickets = InitStore(0, called)
    /\ locked = [t \in TicketIds |-> None]
    /\ pc = [p \in Procs |-> "idle"]
    /\ loc = [p \in Procs |-> Idle]
    /\ res = [p \in Procs |-> "none"]
    /\ nreq = 0
    /\ aborted = 0

\* call_next_ticket at window 2 keeps coming in, and a handler that can take its next
\* step takes it
FairLive ==
    \A p \in Procs :
        /\ WF_vars(CallNextRepeat(p, 2))
        /\ WF_vars(CallNextCurrent(p))
        /\ WF_vars(CallNextSelect(p))
        /\ WF_vars(CallNextAssign(p))

SpecLive == InitLive /\ [][NextLive]_vars /\ FairLive

\* ---------------------------------------------------------------- select_window, release_window

\* staff_profile.current_window: the windows whose current_staff is this staff account
CurrentWindows(wins, p) == {w \in DOMAIN wins : wins[w].current_staff = p}

\* window.assign_staff(user): the staff account leaves any other window and takes this one
AssignStaff(wins, w, p) ==
    [x \in DOMAIN wins |->
        IF x = w THEN [wins[x] EXCEPT !.current_staff = p]
        ELSE IF wins[x].current_staff = p THEN [wins[x] EXCEPT !.current_staff = None]
        ELSE wins[x]]

\* staff_profile.clear_current_window(): the staff account leaves its window
ClearCurrentWindow(wins, p) ==
    [x \in DOMAIN wins |->
        IF wins[x].current_staff = p THEN [wins[x] EXCEPT !.current_staff = None] ELSE wins[x]]

\* select_window comes in
SelectWindowStart(p, w) ==
    /\ pc[p] = "idle"
    /\ nreq < MaxBinds
    /\ nreq' = nreq + 1
    /\ pc' = [pc EXCEPT ![p] = "sw_get"]
    /\ loc' = [loc EXCEPT ![p] = [Idle EXCEPT !.op = "select_window", !.w = w]]
    /\ res' = [res EXCEPT ![p] = "pending"]
    /\ UNCHANGED <<clock, windows, tickets, locked, aborted>>

\* a select_window that takes a window whoever mans it
SelectWindowGetUnchecked(p) ==
    /\ pc[p] = "sw_get"
    /\ IF ~WindowFound(loc[p].w, AssignedService(p))
         THEN Finish(p, "WindowNotFound")
         ELSE /\ pc' = [pc EXCEPT ![p] = "sw_assign"]
              /\ UNCHANGED <<loc, res>>
    /\ UNCHANGED <<clock, windows, tickets, locked, nreq, aborted>>

\* a select_window that takes a window of any service
SelectWindowGetAnyService(p) ==
    /\ pc[p] = "sw_get"
    /\ IF ~(loc[p].w \in WindowIds /\ windows[loc[p].w].status = "active")
         THEN Finish(p, "WindowNotFound")
         ELSE IF windows[loc[p].w].current_staff \notin {None, p}
         THEN Finish(p, "WindowUnavailable")
         ELSE /\ pc' = [pc EXCEPT ![p] = "sw_assign"]
              /\ UNCHANGED <<loc, res>>
    /\ UNCHANGED <<clock, windows, tickets, locked, nreq, aborted>>

\* select_window: the window lookup and the check that nobody else mans it
SelectWindowGet(p) ==
    /\ pc[p] = "sw_get"
    /\ IF ~WindowFound(loc[p].w, AssignedService(p))
         THEN Finish(p, "WindowNotFound")
         ELSE IF windows[loc[p].w].current_staff \notin {None, p}
         THEN Finish(p, "WindowUnavailable")
         ELSE /\ pc' = [pc EXCEPT ![p] = "sw_assign"]
              /\ UNCHANGED <<loc, res>>
    /\ UNCHANGED <<clock, windows, tickets, locked, nreq, aborted>>

\* select_window: window.assign_staff(request.user) and the response
SelectWindowAssign(p) ==
    /\ pc[p] = "sw_assign"
    /\ windows' = AssignStaff(windows, loc[p].w, p)
    /\ pc' = [pc EXCEPT ![p] = "idle"]
    /\ loc' = [loc EXCEPT ![p] = [Idle EXCEPT !.op = "select_window", !.w = loc[p].w]]
    /\ res' = [res EXCEPT ![p] = "ok"]
    /\ UNCHANGED <<clock, tickets, locked, nreq, aborted>>

\* release_window comes in
ReleaseWindowStart(p) ==
    /\ pc[p] = "idle"
    /\ nreq < MaxBinds
    /\ nreq' = nreq + 1
    /\ pc' = [pc EXCEPT ![p] = "rw_clear"]
    /\ loc' = [loc EXCEPT ![p] = [Idle EXCEPT !.op = "release_window"]]
    /\ res' = [res EXCEPT ![p] = "pending"]
    /\ UNCHANGED <<clock, windows, tickets, locked, aborted>>

\* a release_window that answers without clearing
ReleaseWindowKeeping(p) ==
    /\ pc[p] = "rw_clear"
    /\ Finish(p, IF CurrentWindows(windows, p) # {} THEN "Released" ELSE "NoWindow")
    /\ UNCHANGED <<clock, windows, tickets, locked, nreq, aborted>>

\* release_window: the staff account leaves its window, if it has one; both branches
\* answer success
ReleaseWindow(p) ==
    /\ pc[p] = "rw_clear"
    /\ IF CurrentWindows(windows, p) # {}
         THEN /\ windows' = ClearCurrentWindow(windows, p)
              /\ Finish(p, "Released")
         ELSE /\ windows' = windows
              /\ Finish(p, "NoWindow")
    /\ UNCHANGED <<clock, tickets, locked, nreq, aborted>>

InitBind ==
    /\ clock = MaxDay
    /\ windows = StaffWindows
    /\ tickets = <<>>
    /\ locked = [t \in TicketIds |-> None]
    /\ pc = [p \in Procs |-> "idle"]
    /\ loc = [p \in Procs |-> Idle]
    /\ res = [p \in Procs |-> "none"]
    /\ nreq = 0
    /\ aborted = 0

NextBind ==
    \/ \E p \in Procs, w \in RequestWindows : SelectWindowStart(p, w)
    \/ \E p \in Procs : SelectWindowGet(p)
    \/ \E p \in Procs : SelectWindowAssign(p)
    \/ \E p \in Procs : ReleaseWindowStart(p)
    \/ \E p \in Procs : ReleaseWindow(p)

SpecBind == InitBind /\ [][NextBind]_vars


\* ---------------------------------------------------------------- issuance claims

\* the tickets stored for one (service, day) key
KeyTickets(sg, d) == {i \in DOMAIN tickets : tickets[i].service = sg /\ tickets[i].ticket_date = d}

KeyNumbers(sg, d) == {tickets[i].queue_number : i \in KeyTickets(sg, d)}

\* C1: two issue calls for the same (service, day) never hold an equal computed
\* queue_number at the same time, and no two stored tickets of one key share a number.
C1_DistinctNumbers ==
    /\ \A p \in Procs, q \in Procs :
          (/\ p # q
           /\ pc[p] = "sv_insert" /\ pc[q] = "sv_insert"
           /\ IssueGroup(p) = IssueGroup(q)
           /\ loc[p].tdate = loc[q].tdate)
          => loc[p].qn # loc[q].qn
    /\ \A i \in DOMAIN tickets, j \in DOMAIN tickets :
          (/\ i # j
           /\ tickets[i].service = tickets[j].service
           /\ tickets[i].ticket_date = tickets[j].ticket_date)
          => tickets[i].queue_number # tickets[j].queue_number

\* C2: while no issuer aborted, the numbers of every (service, day) key are exactly 1..n
\* for its n tickets.  Stated for the states in which no issue call is in flight, so
\* that no reserved number is still to be stored.
C2_NumbersAreInitialSegment ==
    (aborted = 0 /\ \A p \in Procs : pc[p] = "idle") =>
        \A i \in DOMAIN tickets :
            KeyNumbers(tickets[i].service, tickets[i].ticket_date)
                = 1..Cardinality(KeyTickets(tickets[i].service, tickets[i].ticket_date))

\* C11: no issue call for a valid, active target ends in a queue-number conflict
\* returned to the caller.
C11_NoConflictSurfaced ==
    \A p \in Procs : res[p] # "IntegrityError"

\* C12: the numbering of every (service, day) key starts at 1, whatever was issued on
\* earlier days: once no issue call is in flight, a key that has tickets has the
\* ticket numbered 1.
C12_FirstOfDayIsOne ==
    (\A p \in Procs : pc[p] = "idle") =>
        \A i \in DOMAIN tickets : 1 \in KeyNumbers(tickets[i].service, tickets[i].ticket_date)

\* the step in which an issue call stores its ticket
InsertStep(p) == pc[p] = "sv_insert" /\ pc'[p] = "pr_print"

\* the ticket an insert step stored
Inserted == tickets'[Len(tickets')]

\* C14: every ticket an issue call stores is waiting, carries the number the call
\* allocated, at least 1, and the day the call read when it began to save, which was
\* the current day then; nothing else of it is set.
C14_IssuedWaiting ==
    [][\A p \in Procs :
          /\ InsertStep(p) =>
                /\ Inserted.status = "waiting"
                /\ Inserted.queue_number = loc[p].qn
                /\ Inserted.queue_number >= 1
                /\ Inserted.ticket_date = loc[p].tdate
                /\ Inserted.ticket_date \in 1..clock
                /\ Inserted = [NoTicket EXCEPT !.service = IssueGroup(p),
                                               !.window = loc[p].w,
                                               !.queue_number = loc[p].qn,
                                               !.ticket_date = loc[p].tdate,
                                               !.status = "waiting"]
          /\ (pc[p] = "sv_date" /\ pc'[p] # "sv_date") => loc'[p].tdate = clock]_vars

\* a ticket issued on the second day is stored, waiting, as number 1 of that day
C14_Witness ==
    \E i \in DOMAIN tickets :
        /\ tickets[i].ticket_date = MaxDay
        /\ tickets[i].status = "waiting"
        /\ tickets[i].queue_number = 1
        /\ \E p \in Procs : res[p] = "Created" /\ loc[p].tdate = MaxDay

\* ---------------------------------------------------------------- staff claims

\* the tickets in serving at a window
ServingNow(tks, w) == {i \in DOMAIN tks : tks[i].status = "serving" /\ tks[i].assigned_window = w}

\* C3: in every reachable state each window has at most one ticket in serving.
C3_OneServingPerWindow ==
    \A w \in WindowIds : Cardinality(ServingNow(tickets, w)) <= 1

\* C4: two concurrent callNext calls never hold the same next ticket: the ticket a call
\* is about to assign is locked by that call and still waiting, so no other call
\* assigns it.
C4_NoDoubleAssignment ==
    \A p \in Procs :
        pc[p] = "cn_assign" =>
            /\ locked[loc[p].nt] = p
            /\ tickets[loc[p].nt].status = "waiting"
            /\ \A q \in Procs \ {p} : pc[q] = "cn_assign" => loc[q].nt # loc[p].nt

\* one callNext holds the first waiting ticket while a second callNext of the same
\* service is at its own selection
C4_Witness ==
    /\ pc[1] = "cn_assign"
    /\ pc[2] = "cn_next"
    /\ loc[1].nt = First(tickets, WaitingOf(tickets, AssignedService(2), loc[2].tdate))

\* the step in which callNext answers "no tickets waiting"
QueueEmptyStep(p) == pc[p] = "cn_next" /\ pc'[p] = "idle" /\ res'[p] = "QueueEmpty"

C6_ServedIsTerminal ==
    [][\A t \in DOMAIN tickets : tickets[t].status = "served" => tickets'[t].status = "served"]_vars

\* the step in which a call operation commits its assignment
CallCommitStep(p) ==
    /\ pc[p] \in {"cn_assign", "cs_assign"}
    /\ pc'[p] = "idle"

\* the ticket a call operation assigns
CallTarget(p) == IF pc[p] = "cn_assign" THEN loc[p].nt ELSE loc[p].t

\* C7: a successful callNext or callSpecific that found a ticket P in serving at its
\* window leaves P served, with served_by and served_at set, and the new ticket as the
\* only ticket in serving at that window.
C7_CallCompletesPrior ==
    [][\A p \in Procs :
          (CallCommitStep(p) /\ loc[p].cur # None) =>
              /\ tickets'[loc[p].cur].status = "served"
              /\ tickets'[loc[p].cur].served_by = p
              /\ tickets'[loc[p].cur].served_at # None
              /\ ServingNow(tickets', loc[p].w) = {CallTarget(p)}]_vars

\* C8: a successful startServing at a window that has a ticket in serving leaves that
\* prior ticket served and the started ticket as the only one in serving there.
C8_StartCompletesPrior ==
    [][\A p \in Procs :
          (pc[p] = "ss_save" /\ pc'[p] = "idle") =>
              /\ \A t \in ServingNow(tickets, loc[p].w) \ {loc[p].t} : tickets'[t].status = "served"
              /\ ServingNow(tickets', loc[p].w) = {loc[p].t}]_vars

\* C9: every operation writes to a state on which its guard holds, as it would in a
\* serial execution.
C9_GuardHoldsOnWrite ==
    [][\A p \in Procs :
          /\ (pc[p] = "ss_save" /\ pc'[p] = "idle") => StartGuard(tickets[loc[p].t].status)
          /\ (pc[p] = "co_save" /\ pc'[p] = "idle") => CompleteGuard(tickets[loc[p].t].status)
          /\ (pc[p] = "rm_save" /\ pc'[p] = "idle") => RemoveGuard(tickets[loc[p].t].status)
          /\ (pc[p] = "rc_save" /\ pc'[p] = "idle") => RecallGuard(tickets[loc[p].t].status)
          /\ CallCommitStep(p) =>
                /\ StartGuard(tickets[CallTarget(p)].status)
                /\ ServingNow(tickets, loc[p].w) \subseteq {loc[p].cur}]_vars

\* the step in which callNext selects its next ticket
SelectStep(p) == pc[p] = "cn_next" /\ pc'[p] = "cn_assign"

\* C10: callNext selects, and then assigns, a ticket that is waiting, of the window's
\* service and of the current day, whose queue_number is the smallest among such
\* tickets; a notified ticket is never selected.
C10_CallNextTakesSmallestWaiting ==
    [][\A p \in Procs :
          /\ SelectStep(p) =>
                LET n == loc'[p].nt
                IN /\ n \in DOMAIN tickets
                   /\ tickets[n].status = "waiting"
                   /\ tickets[n].service = windows[loc[p].w].service_type
                   /\ tickets[n].ticket_date = clock
                   /\ \A u \in DOMAIN tickets :
                         (/\ tickets[u].status = "waiting"
                          /\ tickets[u].service = tickets[n].service
                          /\ tickets[u].ticket_date = tickets[n].ticket_date)
                         => tickets[n].queue_number <= tickets[u].queue_number
          /\ (pc[p] = "cn_assign" /\ pc'[p] = "idle") =>
                /\ tickets[loc[p].nt].status = "waiting"
                /\ tickets'[loc[p].nt].status = "serving"
                /\ tickets'[loc[p].nt].assigned_window = loc[p].w
                /\ \A t \in DOMAIN tickets :
                      (t # loc[p].nt /\ tickets'[t].status = "serving") => tickets[t].status = "serving"]_vars

\* callNext has selected ticket 2 while ticket 1, with the smaller number, is notified
C10_Witness ==
    \E p \in Procs :
        /\ pc[p] = "cn_assign"
        /\ loc[p].nt = 2
        /\ tickets[1].status = "notified"
        /\ tickets[3].status = "waiting"

\* C13: no step changes the ticket_date or the queue_number of a stored ticket, and no
\* step removes a ticket from the store.
C13_DateAndNumberFixed ==
    [][\A t \in DOMAIN tickets :
          /\ t \in DOMAIN tickets'
          /\ tickets'[t].ticket_date = tickets[t].ticket_date
          /\ tickets'[t].queue_number = tickets[t].queue_number]_vars

\* one ticket has been called to a window and another removed, both with the number
\* and the day they were issued with
C13_Witness ==
    \E t \in DOMAIN tickets, u \in DOMAIN tickets :
        /\ tickets[t].status = "serving" /\ tickets[t].called_by # None
        /\ tickets[u].status = "cancelled"
        /\ tickets[t].queue_number = t /\ tickets[u].queue_number = u
        /\ nreq = MaxOps

\* ---------------------------------------------------------------- operation contracts

\* the step in which the handler at position `at` writes and returns
SaveStep(p, at) == pc[p] = at /\ pc'[p] = "idle"

\* the step in which a handler's read passes its checks and goes on to position `at`
AcceptStep(p, at) == pc[p] = "idle" /\ pc'[p] = at

\* C15: recall goes through only for a ticket that is notified, skipped or cancelled,
\* and then makes it waiting with called_by and called_at cleared; the ticket it writes
\* is in one of these three statuses; a refused request changes no ticket.
C15_RecallOnlyFromRecallable ==
    [][\A p \in Procs :
          /\ AcceptStep(p, "rc_save") =>
                tickets[loc'[p].t].status \in {"notified", "skipped", "cancelled"}
          /\ SaveStep(p, "rc_save") =>
                /\ tickets[loc[p].t].status \in {"notified", "skipped", "cancelled"}
                /\ tickets'[loc[p].t].status = "waiting"
                /\ tickets'[loc[p].t].called_by = None
                /\ tickets'[loc[p].t].called_at = None
          /\ nreq' # nreq => tickets' = tickets]_vars

\* C16: complete goes through only for a ticket in serving, and then makes it served
\* with served_by and served_at set and nothing else of it changed; the ticket it
\* writes is in serving; a refused request changes no ticket.
C16_CompleteOnlyFromServing ==
    [][\A p \in Procs :
          /\ AcceptStep(p, "co_save") => tickets[loc'[p].t].status = "serving"
          /\ SaveStep(p, "co_save") =>
                /\ tickets[loc[p].t].status = "serving"
                /\ tickets'[loc[p].t] = [tickets[loc[p].t] EXCEPT !.status = "served",
                                                                  !.served_by = p,
                                                                  !.served_at = clock]
          /\ nreq' # nreq => tickets' = tickets]_vars

\* C17: callSpecific and startServing go through only for a ticket that is waiting or
\* notified, and then make it serving at the given window; the ticket they write is
\* waiting or notified; a refused request changes no ticket.
C17_CallOnlyFromWaitingOrNotified ==
    [][\A p \in Procs :
          /\ AcceptStep(p, "ss_save") => tickets[loc'[p].t].status \in {"waiting", "notified"}
          /\ (pc[p] = "cs_get" /\ pc'[p] = "cs_cur") =>
                tickets[loc[p].t].status \in {"waiting", "notified"}
          /\ (SaveStep(p, "ss_save") \/ SaveStep(p, "cs_assign")) =>
                /\ tickets[loc[p].t].status \in {"waiting", "notified"}
                /\ tickets'[loc[p].t].status = "serving"
                /\ tickets'[loc[p].t].assigned_window = loc[p].w
          /\ SaveStep(p, "cs_get") => tickets' = tickets
          /\ nreq' # nreq => tickets' = tickets]_vars

\* C18: remove never writes a served ticket, which stays served; a ticket that is
\* waiting, notified, serving or skipped when remove writes it becomes cancelled with
\* the reason in its notes; a refused request changes no ticket.
C18_RemoveCancelsUnlessServed ==
    [][\A p \in Procs :
          /\ AcceptStep(p, "rm_save") => tickets[loc'[p].t].status # "served"
          /\ SaveStep(p, "rm_save") =>
                /\ tickets[loc[p].t].status = "served" => tickets'[loc[p].t] = tickets[loc[p].t]
                /\ tickets[loc[p].t].status \in {"waiting", "notified", "serving", "skipped"} =>
                      /\ tickets'[loc[p].t].status = "cancelled"
                      /\ tickets'[loc[p].t].notes = <<"Removed from queue">>
          /\ nreq' # nreq => tickets' = tickets]_vars

\* C19: remove on a ticket that is already cancelled is refused: no remove request
\* passes its checks for a cancelled ticket, and none writes one.
C19_RemoveRefusedWhenCancelled ==
    [][\A p \in Procs :
          /\ AcceptStep(p, "rm_save") => tickets[loc'[p].t].status # "cancelled"
          /\ SaveStep(p, "rm_save") => tickets[loc[p].t].status # "cancelled"]_vars

\* a window a ticket of service svc may be called to: known, active, of that service
WindowUsable(w, svc) ==
    \E x \in DOMAIN windows :
        x = w /\ windows[x].status = "active" /\ windows[x].service_type = svc

\* C20: a callNext, callSpecific or startServing request goes on past its window
\* lookup only with a window that is known, active and of the staff's service (for
\* startServing, of the ticket's service, which is the staff's); any other request is
\* refused: the handler is idle again and no ticket and no lock has changed, and the
\* window error is answered by an idle handler; every ticket put in serving is
\* assigned to a usable window of its own service.
C20_UnusableWindowRefused ==
    [][\A p \in Procs :
          /\ (AcceptStep(p, "cn_cur") \/ AcceptStep(p, "cs_get")) =>
                WindowUsable(loc'[p].w, AssignedService(p))
          /\ AcceptStep(p, "ss_save") =>
                /\ WindowUsable(loc'[p].w, tickets[loc'[p].t].service)
                /\ tickets[loc'[p].t].service = AssignedService(p)
          /\ (nreq' # nreq /\ pc' = pc) => (tickets' = tickets /\ locked' = locked)
          /\ (res'[p] = "WindowNotFound" /\ res[p] # "WindowNotFound") =>
                (pc[p] = "idle" /\ pc'[p] = "idle" /\ tickets' = tickets)
          /\ (SaveStep(p, "cn_assign") \/ SaveStep(p, "cs_assign") \/ SaveStep(p, "ss_save")) =>
                \A t \in DOMAIN tickets :
                    (tickets'[t].status = "serving" /\ tickets[t].status # "serving")
                        => WindowUsable(tickets'[t].assigned_window, tickets'[t].service)]_vars

\* a calling request has been refused for its window, and no ticket has been touched
C20_Witness ==
    \E p \in Procs :
        /\ res[p] = "WindowNotFound"
        /\ pc[p] = "idle"
        /\ nreq = 1
        /\ \E notified \in InitNotified, called \in BOOLEAN : tickets = InitStore(notified, called)

\* ---------------------------------------------------------------- printing

PeopleAhead(tks, t) ==
    IF tks[t].status \in {"serving", "served", "cancelled"} THEN 0
    ELSE IF tks[t].window # None
    THEN Cardinality({i \in DOMAIN tks : /\ tks[i].window = tks[t].window
                                         /\ tks[i].ticket_date = tks[t].ticket_date
                                         /\ tks[i].status \in {"waiting", "notified"}
                                         /\ tks[i].queue_number < tks[t].queue_number})
    ELSE Cardinality({i \in DOMAIN tks : /\ tks[i].service = tks[t].service
                                         /\ tks[i].ticket_date = tks[t].ticket_date
                                         /\ tks[i].status \in {"waiting", "notified"}
                                         /\ tks[i].queue_number < tks[t].queue_number})

\* C26: people_ahead of a waiting or notified ticket is the number of other waiting or
\* notified tickets of its service and day with a smaller queue_number, and it is 0
\* for a ticket in any other status.
C26_PeopleAheadCountsService ==
    \A t \in DOMAIN tickets :
        PeopleAhead(tickets, t) =
            IF tickets[t].status \in {"waiting", "notified"}
              THEN Cardinality({i \in DOMAIN tickets :
                                   /\ i # t
                                   /\ tickets[i].service = tickets[t].service
                                   /\ tickets[i].ticket_date = tickets[t].ticket_date
                                   /\ tickets[i].status \in {"waiting", "notified"}
                                   /\ tickets[i].queue_number < tickets[t].queue_number})
              ELSE 0

\* Service.average_service_time: the default
DefaultServiceTime == 5

\* the Service rows: the admin has set the cashier service to 10 minutes
AverageServiceTime(svc) == IF svc = "cashier" THEN 2 * DefaultServiceTime ELSE DefaultServiceTime

\* ticket_status: the minutes per person ahead
AssumedServiceTime == 5

\* ticket_status: queue_info.estimated_wait_minutes
EstimatedWaitMinutes(tks, t) == PeopleAhead(tks, t) * AssumedServiceTime

\* C30: the estimated wait of a ticket is its people_ahead times the
\* average_service_time of its own service, and 0 once it is serving or terminal.
C30_EstimateUsesServiceTime ==
    \A t \in DOMAIN tickets :
        /\ EstimatedWaitMinutes(tickets, t) =
               PeopleAhead(tickets, t) * AverageServiceTime(tickets[t].service)
        /\ tickets[t].status \in {"serving", "served", "cancelled"} =>
               EstimatedWaitMinutes(tickets, t) = 0

\* ---------------------------------------------------------------- administration

\* delete_service_window: window.delete() removes the row, and on_delete=CASCADE of
\* Ticket.window removes the tickets that point at it.  The admin request is taken
\* between kiosk requests.
DeleteServiceWindow(w) ==
    /\ \A p \in Procs : pc[p] = "idle"
    /\ nreq < MaxIssues
    /\ nreq' = nreq + 1
    /\ windows[w] # NoWindow
    /\ windows' = [windows EXCEPT ![w] = NoWindow]
    /\ tickets' = SelectSeq(tickets, LAMBDA row : row.window # w)
    /\ UNCHANGED <<clock, locked, pc, loc, res, aborted>>

NextAdmin ==
    \/ NextIssue
    \/ \E w \in WindowIds : DeleteServiceWindow(w)

SpecAdmin == InitIssue /\ [][NextAdmin]_vars

\* C28: no operation removes a ticket from the store: every ticket stored before a
\* step, the deletion of a window included, is still stored after it.
C28_TicketsNeverDeleted ==
    [][\A i \in DOMAIN tickets : \E j \in DOMAIN tickets' : tickets'[j] = tickets[i]]_vars

\* ---------------------------------------------------------------- order of calls

\* the step that commits call_next_ticket's assignment
AssignStep(p) == pc[p] = "cn_assign" /\ pc'[p] = "idle"

\* C27: when callNext assigns a ticket, no ticket of the same service and day with a
\* smaller queue_number is waiting in the store.
C27_CallNextFollowsNumbers ==
    [][\A p \in Procs :
          AssignStep(p) =>
             \A a \in DOMAIN tickets :
                (/\ tickets[a].service = tickets[loc[p].nt].service
                 /\ tickets[a].ticket_date = tickets[loc[p].nt].ticket_date
                 /\ tickets[a].queue_number < tickets[loc[p].nt].queue_number)
                => tickets[a].status # "waiting"]_vars

\* ---------------------------------------------------------------- refused requests

\* the responses of a refused staff request
ErrorResponses == {"NotFound", "Forbidden", "InvalidState", "WindowNotFound"}

\* a step that ends a request of p with an error response: the first step of a
\* handler, or a later one
RefusedStep(p) ==
    /\ pc'[p] = "idle"
    /\ res'[p] \in ErrorResponses
    /\ pc[p] # "idle" \/ nreq' # nreq

\* C21: a step that refuses a staff request (unknown ticket, wrong status, unavailable
\* window, ticket of another service) writes nothing: every ticket and every window is
\* as it was before the step, and the request held no write of its own before it.
C21_RefusedRequestWritesNothing ==
    [][\A p \in Procs :
          RefusedStep(p) =>
             /\ tickets' = tickets
             /\ windows' = windows
             /\ pc[p] \in {"idle", "cs_get"}]_vars

\* one request was refused for a ticket of another service, one for a wrong status,
\* and the store is as it was
C21_Witness ==
    \E p, q \in Procs :
        /\ res[p] = "Forbidden"
        /\ res[q] = "InvalidState"
        /\ pc[p] = "idle" /\ pc[q] = "idle"
        /\ \E called \in BOOLEAN : tickets = MixedStore(called)

\* ---------------------------------------------------------------- window binding claims

\* C22: two staff accounts never both hold, as their last answer, a successful
\* select_window of the same window: of two concurrent requests for an unmanned window
\* one is refused.
C22_OneBinderSucceeds ==
    \A p, q \in Procs :
        (/\ p # q
         /\ pc[p] = "idle" /\ res[p] = "ok" /\ loc[p].op = "select_window"
         /\ pc[q] = "idle" /\ res[q] = "ok" /\ loc[q].op = "select_window")
        => loc[p].w # loc[q].w

\* C23: every staff account mans at most one window, and a window that is manned is a
\* window of its staff account's service; a staff account whose select_window has just
\* been answered mans no window but the one it selected.
C23_OneWindowPerStaff ==
    /\ \A p \in Procs : Cardinality(CurrentWindows(windows, p)) <= 1
    /\ \A w \in WindowIds :
          windows[w].current_staff # None =>
              /\ windows[w].current_staff \in Procs
              /\ windows[w].service_type = AssignedService(windows[w].current_staff)
    /\ \A p \in Procs :
          (pc[p] = "idle" /\ res[p] = "ok" /\ loc[p].op = "select_window")
          => CurrentWindows(windows, p) \subseteq {loc[p].w}

\* staff 1 has moved to window 3 and staff 2 has taken window 2 after it
C23_Witness ==
    /\ windows[3].current_staff = 1
    /\ windows[2].current_staff = 2
    /\ res[1] = "ok" /\ loc[1].w = 3
    /\ res[2] = "ok" /\ loc[2].w = 2
    /\ nreq = 3

\* the step in which select_window looks the window up and checks who mans it
BindCheckStep(p) == pc[p] = "sw_get" /\ pc'[p] # "sw_get"

\* the window cannot be taken by this staff account: unknown, not active, of another
\* service, or manned by another staff account
BindRefusable(p, w) ==
    \/ w \notin WindowIds
    \/ /\ w \in WindowIds
       /\ \/ windows[w].status # "active"
          \/ windows[w].service_type # AssignedService(p)
          \/ windows[w].current_staff \notin {None, p}

ReleaseStep(p) == pc[p] = "rw_clear" /\ pc'[p] = "idle"

\* C25: release_window leaves the staff account without a window: the window it manned
\* has no staff afterwards, so that select_window of another staff account passes its
\* check, and no other window changes; with no window manned it answers success and
\* changes nothing.
C25_ReleaseClearsBinding ==
    [][\A p \in Procs :
          ReleaseStep(p) =>
             /\ CurrentWindows(windows', p) = {}
             /\ \A w \in WindowIds :
                   IF windows[w].current_staff = p
                     THEN /\ windows'[w] = [windows[w] EXCEPT !.current_staff = None]
                          /\ \A q \in Procs : windows'[w].current_staff \in {None, q}
                     ELSE windows'[w] = windows[w]
             /\ res'[p] \in {"Released", "NoWindow"}
             /\ CurrentWindows(windows, p) = {} => (windows' = windows /\ res'[p] = "NoWindow")]_vars

\* staff 1 has released window 2 and staff 2 has taken it
C25_Witness ==
    /\ res[1] = "Released"
    /\ windows[2].current_staff = 2
    /\ res[2] = "ok" /\ loc[2].w = 2
    /\ nreq = 3

\* ---------------------------------------------------------------- dashboard claims

\* .first() of a queryset without order_by: the row with the smallest id
FirstById(S) == IF S = {} THEN None ELSE CHOOSE i \in S : \A j \in S : i <= j

\* staff_dashboard: the tickets reported as currently_serving, one for each active
\* window of the service that has one
DashboardServing(tks, svc, today) ==
    {FirstById(ServingAt(tks, svc, w, today)) : w \in ActiveWindowsOf(svc)} \ {None}

\* C31: the tickets the dashboard reports as currently serving for a service are all
\* the tickets of that service that are serving today.
C31_AllServingReported ==
    \A p \in Procs :
        DashboardServing(tickets, AssignedService(p), clock) =
            {i \in DOMAIN tickets : /\ tickets[i].service = AssignedService(p)
                                    /\ tickets[i].ticket_date = clock
                                    /\ tickets[i].status = "serving"}

\* ---------------------------------------------------------------- display numbers

\* the width of the format specification 03d
PadWidth == 3

\* the decimal digits of n, as a sequence of characters
RECURSIVE Decimal(_)
Decimal(n) ==
    LET digit == <<"0", "1", "2", "3", "4", "5", "6", "7", "8", "9">>[(n % 10) + 1]
    IN IF n < 10 THEN <<digit>> ELSE Decimal(n \div 10) \o <<digit>>

\* zeros in front of a text up to a width; a longer text is left as it is
RECURSIVE ZeroPad(_, _)
ZeroPad(text, width) == IF Len(text) >= width THEN text ELSE ZeroPad(<<"0">> \o text, width)

\* Ticket.get_display_number: f"{self.queue_number:03d}"
GetDisplayNumber(row) == ZeroPad(Decimal(row.queue_number), PadWidth)

\* Service.prefix of the services
ServicePrefix(svc) ==
    CASE svc = "cashier" -> "C"
      [] svc = "registrar" -> "R"
      [] svc = "permit" -> "P"
      [] OTHER -> "X"

\* C32: the display number of a stored ticket is the prefix of its service followed by
\* its queue_number padded with zeros to three digits.
C32_DisplayNumberHasPrefix ==
    \A t \in DOMAIN tickets :
        GetDisplayNumber(tickets[t]) =
            <<ServicePrefix(tickets[t].service)>> \o ZeroPad(Decimal(tickets[t].queue_number), PadWidth)

\* ---------------------------------------------------------------- service boundary

\* the positions in which start_serving, complete_serving, remove_ticket and
\* recall_ticket hold a ticket they are about to save
SavePositions == {"ss_save", "co_save", "rm_save", "rc_save"}

\* C33: start_serving, complete_serving, remove_ticket and recall_ticket go on to their
\* save only for a ticket of the staff account's service, and the save changes that
\* ticket alone: a ticket of another service is as it was after every step of theirs.
C33_OtherServiceUntouched ==
    [][\A p \in Procs : \A at \in SavePositions :
          /\ AcceptStep(p, at) =>
                /\ loc'[p].t \in DOMAIN tickets
                /\ tickets[loc'[p].t].service = AssignedService(p)
          /\ SaveStep(p, at) =>
                /\ tickets[loc[p].t].service = AssignedService(p)
                /\ \A t \in DOMAIN tickets :
                      (t # loc[p].t \/ tickets[t].service # AssignedService(p))
                      => tickets'[t] = tickets[t]]_vars

\* a request on the cashier ticket was refused, a registrar ticket was removed, and the
\* cashier ticket is as issued
C33_Witness ==
    \E p, q \in Procs :
        /\ res[p] = "Forbidden" /\ pc[p] = "idle"
        /\ res[q] = "ok" /\ pc[q] = "idle"
        /\ tickets[NumTickets] = NewTicket("cashier", None, 1, MaxDay)
        /\ \E t \in DOMAIN tickets : tickets[t].service = "registrar" /\ tickets[t].status = "cancelled"

\* ---------------------------------------------------------------- lock order

\* C34: no two calls ever wait for each other's row locks.
C34_NoLockCycle ==
    \A p, q \in Procs : ~(p # q /\ BlockedBy(p, q) /\ BlockedBy(q, p))

\* ---------------------------------------------------------------- ticket field claims

\* C35: every serving ticket has an assigned window, and that window is a window of the
\* ticket's service.
C35_ServingHasWindowOfService ==
    \A t \in DOMAIN tickets :
        tickets[t].status = "serving" =>
            /\ tickets[t].assigned_window \in WindowIds
            /\ windows[tickets[t].assigned_window].service_type = tickets[t].service

\* a call has brought a ticket to window 3 while another is serving at window 2
C35_Witness ==
    \E t, u \in DOMAIN tickets :
        /\ tickets[t].status = "serving" /\ tickets[t].assigned_window = 3
        /\ tickets[t].called_by # None
        /\ tickets[u].status = "serving" /\ tickets[u].assigned_window = 2

\* C36: every waiting ticket has no assigned window, no called_by and no called_at.
C36_WaitingHasNoWindow ==
    \A t \in DOMAIN tickets :
        tickets[t].status = "waiting" =>
            /\ tickets[t].assigned_window = None
            /\ tickets[t].called_by = None
            /\ tickets[t].called_at = None

\* C37: every serving or served ticket has called_by and called_at set, and every
\* served ticket has served_by and served_at set.
C37_CalledAndServedStamped ==
    \A t \in DOMAIN tickets :
        /\ tickets[t].status \in {"serving", "served"} =>
               (tickets[t].called_by # None /\ tickets[t].called_at # None)
        /\ tickets[t].status = "served" =>
               (tickets[t].served_by # None /\ tickets[t].served_at # None)

\* ---------------------------------------------------------------- day boundary

\* a step that ends a call_next_ticket or call_specific_ticket of p
CallEndStep(p) == pc[p] \in {"cn_next", "cn_assign", "cs_get", "cs_assign"} /\ pc'[p] = "idle"

\* C38: a call takes the day on which it comes in as today, and the tickets it changes,
\* the one it assigns and the one it completes, are tickets of that day.
C38_CallsActOnTodayOnly ==
    [][\A p \in Procs :
          /\ (AcceptStep(p, "cn_cur") \/ AcceptStep(p, "cs_get")) => loc'[p].tdate = clock
          /\ CallEndStep(p) =>
                \A t \in DOMAIN tickets :
                   tickets'[t] # tickets[t] => tickets[t].ticket_date = loc[p].tdate]_vars

\* on the next day a call at window 2 found the queue empty: yesterday's ticket is
\* still serving at window 2 and yesterday's tickets are still waiting
C38_Witness ==
    \E p \in Procs :
        /\ clock = MaxDay
        /\ pc[p] = "idle" /\ res[p] = "QueueEmpty"
        /\ tickets[1].status = "serving" /\ tickets[1].assigned_window = 2
        /\ tickets[1].ticket_date < clock
        /\ tickets[2].status = "waiting" /\ tickets[2].ticket_date < clock

\* ---------------------------------------------------------------- progress

\* C39: with call_next_ticket coming in again and again at window 2, every ticket that
\* is waiting becomes serving.
C39_WaitingEventuallyServing ==
    \A t \in 1..NumTickets :
        (tickets[t].status = "waiting") ~> (tickets[t].status = "serving")

\* the last ticket of the day has been called by call_next_ticket and no ticket waits
C39_Witness ==
    /\ tickets[NumTickets].status = "serving"
    /\ tickets[NumTickets].called_by # None
    /\ \A t \in 1..NumTickets : tickets[t].status # "waiting"

====
